---- MODULE Spec2Model ----
(***************************************************************************)
(* Model of livekit/storage: the Storage contract and its adapters.       *)
(*                                                                         *)
(* Strings are sequences of one-character strings, so that path.Join,      *)
(* path.Split and strings.HasPrefix are computed as the Go library         *)
(* computes them.  The local adapter works on a filesystem `fs`, a         *)
(* function from clean absolute paths to nodes; the cloud adapters work on *)
(* a provider bucket `bucket`, a function from keys to payloads.           *)
(***************************************************************************)
EXTENDS Integers, Sequences, FiniteSets, TLC

VARIABLES adapter, fs, bucket, last, conf, client, net, procs

vars == <<adapter, fs, bucket, last, conf, client, net, procs>>

----------------------------------------------------------------------------
(* Bounds and input sets                                                   *)

\* longest payload; payloads of length 0, 1 and "larger" are all present
MaxDataLen == 2

\* the payload of length n: bytes 1..n, so every position is recognisable
Payload(n) == [i \in 1..n |-> i]

Data == {Payload(n) : n \in 0..MaxDataLen}

\* error values
Nil == "nil"
ENOENT == "ENOENT"
ENOTDIR == "ENOTDIR"
EISDIR == "EISDIR"
ENOTEMPTY == "ENOTEMPTY"
EBUSY == "EBUSY"
EBADF == "EBADF"
EOF == "EOF"
ErrProvider == "provider error"
Panic == "panic"
\* a call that does not return
Hang == "never returns"

\* how the provider answers the attempts of one call: it fails the first n
\* attempts with a retryable error, or every attempt with one, or answers the
\* first attempt with an error that is not retried
MaxFaults == 5
Faults ==
    [kind : {"transient"}, n : 0..MaxFaults] \cup [kind : {"forever", "fatal"}, n : {0}]

\* the retry policies: a number of attempts, or no limit
gcpUploadRetry == [bounded |-> TRUE, max |-> 5]
gcpDownloadRetry == [bounded |-> FALSE, max |-> 0]
azureRetry == [bounded |-> TRUE, max |-> 5]
DefaultMaxAttempts == 3
DefaultMaxBackoff == 20
StandardRetryer(MaxAttempts, MaxBackoff) ==
    [bounded |-> TRUE,
     max |-> IF MaxAttempts <= 0 THEN DefaultMaxAttempts ELSE MaxAttempts,
     MaxBackoff |-> IF MaxBackoff <= 0 THEN DefaultMaxBackoff ELSE MaxBackoff]

\* the delays the standard retryer's jittered exponential backoff can wait
\* between two attempts: from no delay up to MaxBackoff
BackoffDelay(policy) == {0, policy.MaxBackoff}

\* the retry loop of one call under a policy: the attempts made, whether the
\* last one succeeded, and whether the loop never ends
Retry(policy, faults) ==
    IF faults.kind = "fatal" THEN [ok |-> FALSE, hang |-> FALSE, attempts |-> 1]
    ELSE IF faults.kind = "forever"
         THEN IF policy.bounded THEN [ok |-> FALSE, hang |-> FALSE, attempts |-> policy.max]
              ELSE [ok |-> FALSE, hang |-> TRUE, attempts |-> 0]
         ELSE IF policy.bounded /\ faults.n >= policy.max
              THEN [ok |-> FALSE, hang |-> FALSE, attempts |-> policy.max]
              ELSE [ok |-> TRUE, hang |-> FALSE, attempts |-> faults.n + 1]

\* what a call leaves when its retry loop ran as run: r is what the call
\* returns for the loop's last answer.  A call that fails on the local file
\* before it reaches the provider makes no attempt.
Retried(r, run) ==
    IF r.err \in {ENOENT, ENOTDIR, EISDIR, EBADF} THEN [attempts |-> 0, delay |-> 0] @@ r
    ELSE [attempts |-> run.attempts, delay |-> 0] @@
         [r EXCEPT !.err = IF run.hang /\ @ = ErrProvider THEN Hang ELSE @]

\* a call without a retry policy in the adapter
Once(r) == [attempts |-> 1, delay |-> 0] @@ r

\* a call of the S3 adapter: between two attempts the retryer waited delay
Backoff(r, delay) == [r EXCEPT !.delay = IF r.attempts > 1 THEN delay ELSE 0]

\* the configured storage root of the local adapter, after filepath.Abs
StorageDir == <<"/", "r", "/", "s">>

\* storagePath / prefix arguments handed to the local adapter
StoragePaths ==
    { <<>>,                                  \* ""
      <<".">>,                               \* "."
      <<".", ".">>,                          \* ".."
      <<"a">>,                               \* "a"
      <<"a", "/">>,                          \* "a/"
      <<"a", "/", "a">>,                     \* "a/a"
      <<"a", "/", "a", ".">>,                \* "a/a."  (a name that starts with "a")
      <<"a", "/", "a", "/", "a">>,           \* "a/a/a"
      <<"a", "/", ".", ".">> }               \* "a/.."

\* the storage paths uploaded to
UploadPaths ==
    { <<>>, <<"a">>, <<"a", "/", "a">>, <<"a", "/", "a", ".">>, <<"a", "/", "a", "/", "a">> }

\* the storage paths of the file transfers
FilePaths == { <<"a">>, <<"a", "/", "a", "/", "a">> }

\* localPath arguments: an existing file and a path that does not exist
LocalFile == <<"/", "l", "/", "f">>
LocalMissing == <<"/", "l", "/", "n">>
\* a local path whose directory does not exist
LocalDeep == <<"/", "m", "/", "f">>
LocalPaths == {LocalFile, LocalMissing}
\* a local path that names a directory
LocalDir == <<"/", "l">>

\* lists handed to DeleteObjects
DeleteLists ==
    { << <<"a", "/", "a">>, <<"a", "/", "a", ".">> >>,
      << <<"a", "/", "a", "/", "a">>, <<>> >>,
      << <<".", ".">>, <<"a">> >> }

\* keys handed to the cloud adapters
\* the local paths the bucket adapters download to, and the key their file
\* transfers use
DownloadPaths == {LocalMissing, LocalDeep}
FileKeys == {<<"a">>}

CloudKeys == { <<"a">> }

Adapters == {"local", "azure", "gcp", "s3", "alioss", "aliyun"}

----------------------------------------------------------------------------
(* Strings and paths (Go: strings.HasPrefix, path.Clean, path.Join,        *)
(* path.Split)                                                             *)

HasPrefix(s, prefix) ==
    /\ Len(prefix) <= Len(s)
    /\ SubSeq(s, 1, Len(prefix)) = prefix

Dot == <<".">>
DotDot == <<".", ".">>
Slash == <<"/">>

\* the elements of a path between slashes, empty elements dropped
RECURSIVE SplitSlash(_, _, _)
SplitSlash(s, cur, acc) ==
    IF s = <<>>
    THEN IF cur = <<>> THEN acc ELSE Append(acc, cur)
    ELSE IF Head(s) = "/"
         THEN SplitSlash(Tail(s), <<>>, IF cur = <<>> THEN acc ELSE Append(acc, cur))
         ELSE SplitSlash(Tail(s), Append(cur, Head(s)), acc)

\* path.Clean's rules 2-4 on the elements: drop ".", cancel "x/..", drop a
\* leading ".." of a rooted path
RECURSIVE CleanElems(_, _, _)
CleanElems(elems, out, rooted) ==
    IF elems = <<>> THEN out
    ELSE LET e == Head(elems)
             rest == Tail(elems)
         IN  IF e = Dot THEN CleanElems(rest, out, rooted)
             ELSE IF e = DotDot
                  THEN IF out # <<>> /\ out[Len(out)] # DotDot
                       THEN CleanElems(rest, SubSeq(out, 1, Len(out) - 1), rooted)
                       ELSE IF rooted THEN CleanElems(rest, out, rooted)
                            ELSE CleanElems(rest, Append(out, DotDot), rooted)
                  ELSE CleanElems(rest, Append(out, e), rooted)

RECURSIVE JoinElems(_)
JoinElems(elems) ==
    IF elems = <<>> THEN <<>>
    ELSE IF Len(elems) = 1 THEN elems[1]
         ELSE elems[1] \o Slash \o JoinElems(Tail(elems))

Clean(p) ==
    IF p = <<>> THEN Dot
    ELSE LET rooted == (p[1] = "/")
             body == JoinElems(CleanElems(SplitSlash(p, <<>>, <<>>), <<>>, rooted))
         IN  IF rooted THEN Slash \o body
             ELSE IF body = <<>> THEN Dot ELSE body

\* path.Join(a, b): empty elements are ignored, the rest joined by "/" and cleaned
Join(a, b) ==
    IF a = <<>> /\ b = <<>> THEN <<>>
    ELSE IF a = <<>> THEN Clean(b)
         ELSE IF b = <<>> THEN Clean(a)
              ELSE Clean(a \o Slash \o b)

\* index of the last "/" of p, 0 if there is none
LastSlash(p) ==
    LET idx == {i \in 1..Len(p) : p[i] = "/"}
    IN  IF idx = {} THEN 0 ELSE CHOOSE i \in idx : \A j \in idx : j <= i

\* path.Split: the text up to and including the last slash, and the text after it
Split(p) ==
    LET i == LastSlash(p)
    IN  [dir |-> SubSeq(p, 1, i), file |-> SubSeq(p, i + 1, Len(p))]

----------------------------------------------------------------------------
(* The filesystem under the os package.  A node is found by the sequence   *)
(* of names leading to it from "/", which is how the kernel resolves an    *)
(* absolute path; <<>> is "/" itself.                                      *)

DirNode == [dir |-> TRUE, data |-> <<>>]
FileNode(d) == [dir |-> FALSE, data |-> d]

\* the names the kernel walks for the path string p
Elems(p) == CleanElems(SplitSlash(p, <<>>, <<>>), <<>>, TRUE)

\* the path string of the node e
PathOf(e) == Slash \o JoinElems(e)

Exists(f, e) == e \in DOMAIN f
IsDir(f, e) == e \in DOMAIN f /\ f[e].dir
IsFile(f, e) == e \in DOMAIN f /\ ~f[e].dir

Up(e) == SubSeq(e, 1, Len(e) - 1)

\* e and the nodes above it
SelfAndAncestors(e) == {SubSeq(e, 1, i) : i \in 0..Len(e)}

\* the nodes above e
Ancestors(e) == {SubSeq(e, 1, i) : i \in 0..(Len(e) - 1)}

\* the entries of directory d
Children(f, d) == {e \in DOMAIN f : Len(e) = Len(d) + 1 /\ SubSeq(e, 1, Len(d)) = d}

\* the nodes strictly beneath d
Beneath(f, d) == {e \in DOMAIN f : Len(e) > Len(d) /\ SubSeq(e, 1, Len(d)) = d}

\* f without the nodes in gone
Without(f, gone) == [e \in DOMAIN f \ gone |-> f[e]]

\* f with node n at e
With(f, e, n) == [q \in DOMAIN f \cup {e} |-> IF q = e THEN n ELSE f[q]]

\* the error of resolving a path that names no node
Missing(f, e) == IF \E q \in Ancestors(e) : IsFile(f, q) THEN ENOTDIR ELSE ENOENT

\* os.MkdirAll: nothing is created when an existing element of the path is a file
MkdirAll(f, path) ==
    LET chain == SelfAndAncestors(Elems(path))
    IN  IF \E q \in chain : IsFile(f, q)
        THEN [fs |-> f, err |-> ENOTDIR]
        ELSE [fs |-> [q \in DOMAIN f \cup chain |-> IF q \in DOMAIN f THEN f[q] ELSE DirNode],
              err |-> Nil]

\* Create without O_TRUNC: an existing file keeps its bytes
CreateNoTrunc(f, path) ==
    LET e == Elems(path)
    IN  IF IsDir(f, e) THEN [fs |-> f, err |-> EISDIR]
        ELSE IF ~IsDir(f, Up(e)) THEN [fs |-> f, err |-> Missing(f, e)]
             ELSE IF IsFile(f, e) THEN [fs |-> f, err |-> Nil]
                  ELSE [fs |-> With(f, e, FileNode(<<>>)), err |-> Nil]

\* os.Create: O_RDWR|O_CREATE|O_TRUNC
Create(f, path) ==
    LET e == Elems(path)
    IN  IF IsDir(f, e) THEN [fs |-> f, err |-> EISDIR]
        ELSE IF ~IsDir(f, Up(e)) THEN [fs |-> f, err |-> Missing(f, e)]
             ELSE [fs |-> With(f, e, FileNode(<<>>)), err |-> Nil]

\* (*os.File).Write at offset 0 of the open file: the bytes of data replace
\* the first Len(data) bytes of the file; n is the number of bytes written
Write(f, path, data) ==
    LET e == Elems(path)
        old == f[e].data
        tail == IF Len(old) > Len(data) THEN SubSeq(old, Len(data) + 1, Len(old)) ELSE <<>>
    IN  [fs |-> With(f, e, FileNode(data \o tail)), n |-> Len(data), err |-> Nil]

\* os.Open: a file or a directory can be opened for reading
Open(f, path) ==
    LET e == Elems(path)
    IN  IF path = <<>> THEN ENOENT
        ELSE IF Exists(f, e) THEN Nil ELSE Missing(f, e)

\* os.Stat and (*os.File).Stat: the size of the file now on disk
Stat(f, path) ==
    LET e == Elems(path)
    IN  IF Open(f, path) # Nil THEN [size |-> 0, err |-> Open(f, path)]
        ELSE [size |-> IF IsDir(f, e) THEN 0 ELSE Len(f[e].data), err |-> Nil]

\* another process rewrites the file at path while a call is running
Rewritten(f, path, data) ==
    IF path # <<>> /\ IsFile(f, Elems(path)) THEN With(f, Elems(path), FileNode(data)) ELSE f

\* what a file at path may hold by the time an upload reads it: what it held
\* when it was opened, or one byte more, appended by another process
Streamed(f, path) ==
    IF path # <<>> /\ IsFile(f, Elems(path))
    THEN LET n == Len(f[Elems(path)].data)
         IN  {f[Elems(path)].data} \cup {Payload(m) : m \in {n + 1} \cap (0..MaxDataLen)}
    ELSE {<<>>}

\* os.ReadFile
ReadFile(f, path) ==
    LET e == Elems(path)
        err == Open(f, path)
    IN  IF err # Nil THEN [data |-> <<>>, err |-> err]
        ELSE IF IsDir(f, e) THEN [data |-> <<>>, err |-> EISDIR]
             ELSE [data |-> f[e].data, err |-> Nil]

\* os.Remove: a file, or an empty directory; never "/"
Remove(f, path) ==
    LET e == Elems(path)
    IN  IF path = <<>> THEN [fs |-> f, err |-> ENOENT]
        ELSE IF e = <<>> THEN [fs |-> f, err |-> EBUSY]
             ELSE IF ~Exists(f, e) THEN [fs |-> f, err |-> Missing(f, e)]
                  ELSE IF IsDir(f, e) /\ Children(f, e) # {}
                       THEN [fs |-> f, err |-> ENOTEMPTY]
                       ELSE [fs |-> Without(f, {e}), err |-> Nil]

\* byte order of the characters in use
CharOrd(c) ==
    CASE c = "." -> 46 [] c = "/" -> 47 [] c = "a" -> 97 [] c = "f" -> 102
      [] c = "l" -> 108 [] c = "n" -> 110 [] c = "r" -> 114 [] c = "s" -> 115
      [] c = "x" -> 120 [] c = "y" -> 121

RECURSIVE Less(_, _)
Less(s, t) ==
    IF t = <<>> THEN FALSE
    ELSE IF s = <<>> THEN TRUE
         ELSE IF Head(s) = Head(t) THEN Less(Tail(s), Tail(t))
              ELSE CharOrd(Head(s)) < CharOrd(Head(t))

\* the strings of a set in lexical order
RECURSIVE Sorted(_)
Sorted(set) ==
    IF set = {} THEN <<>>
    ELSE LET m == CHOOSE x \in set : \A y \in set \ {x} : Less(x, y)
         IN  <<m>> \o Sorted(set \ {m})

\* os.ReadDir: the names of the entries of the directory, sorted.  The empty
\* path names nothing.
ReadDir(f, path) ==
    LET d == Elems(path)
    IN  IF path = <<>> THEN [entries |-> <<>>, err |-> ENOENT]
        ELSE IF ~Exists(f, d) THEN [entries |-> <<>>, err |-> Missing(f, d)]
             ELSE IF ~IsDir(f, d) THEN [entries |-> <<>>, err |-> ENOTDIR]
                  ELSE [entries |-> Sorted({e[Len(e)] : e \in Children(f, d)}), err |-> Nil]

\* a walk that does not descend: only the files that are entries of path
WalkFilesShallow(f, path) ==
    IF ~IsDir(f, Elems(path)) THEN <<path>>
    ELSE LET names == ReadDir(f, path).entries
             files == {i \in 1..Len(names) : IsFile(f, Elems(Join(path, names[i])))}
         IN  [k \in 1..Cardinality(files) |->
                Join(path, names[CHOOSE i \in files :
                                   Cardinality({j \in files : j <= i}) = k])]

\* filepath.Walk with the callback of ListObjects: the paths of the files at
\* and beneath path, in lexical order
RECURSIVE WalkFiles(_, _)
RECURSIVE WalkNames(_, _, _)
WalkNames(f, path, names) ==
    IF names = <<>> THEN <<>>
    ELSE WalkFiles(f, Join(path, Head(names))) \o WalkNames(f, path, Tail(names))

WalkFiles(f, path) ==
    IF ~IsDir(f, Elems(path)) THEN <<path>>
    ELSE WalkNames(f, path, ReadDir(f, path).entries)

----------------------------------------------------------------------------
(* The local adapter (localUploader), one operator per method: the         *)
(* filesystem after the call and the values returned                       *)

\* the outcome of an upload
UploadResult(f, loc, size, err) == [fs |-> f, loc |-> loc, size |-> size, err |-> err]

\* "if dir, _ := path.Split(storagePath); dir != "" { os.MkdirAll(dir, 0755) }"
MkdirForFile(f, storagePath) ==
    LET dir == Split(storagePath).dir
    IN  IF dir # <<>> THEN MkdirAll(f, dir) ELSE [fs |-> f, err |-> Nil]

local_UploadData(f, data, key) ==
    LET storagePath == Join(StorageDir, key)
        mk == MkdirForFile(f, storagePath)
    IN  IF mk.err # Nil THEN UploadResult(mk.fs, <<>>, 0, mk.err)
        ELSE LET cr == Create(mk.fs, storagePath)
             IN  IF cr.err # Nil THEN UploadResult(cr.fs, <<>>, 0, cr.err)
                 ELSE LET wr == Write(cr.fs, storagePath, data)
                      IN  IF wr.err # Nil THEN UploadResult(wr.fs, <<>>, 0, wr.err)
                          ELSE UploadResult(wr.fs, storagePath, wr.n, Nil)

\* io.Copy(dst, src) between two open files: src is read to its end and the
\* bytes are written to dst; reading a directory fails, and so does writing
\* to a file opened read-only (writable says how dst was opened)
Copy(f, dst, src, writable) ==
    IF IsDir(f, Elems(src)) THEN [fs |-> f, n |-> 0, err |-> EISDIR]
    ELSE LET bytes == f[Elems(src)].data
         IN  IF bytes = <<>> THEN [fs |-> f, n |-> 0, err |-> Nil]
             ELSE IF ~writable \/ IsDir(f, Elems(dst))
                  THEN [fs |-> f, n |-> 0, err |-> EBADF]
                  ELSE LET wr == Write(f, dst, bytes)
                       IN  [fs |-> wr.fs, n |-> wr.n, err |-> wr.err]

local_UploadFile(f, localPath, key) ==
    LET storagePath == Join(StorageDir, key)
    IN  IF Open(f, localPath) # Nil THEN UploadResult(f, <<>>, 0, Open(f, localPath))
        ELSE LET mk == MkdirForFile(f, storagePath)
             IN  IF mk.err # Nil THEN UploadResult(mk.fs, <<>>, 0, mk.err)
                 ELSE LET cr == Create(mk.fs, storagePath)
                      IN  IF cr.err # Nil THEN UploadResult(cr.fs, <<>>, 0, cr.err)
                          ELSE LET cp == Copy(cr.fs, storagePath, localPath, TRUE)
                               IN  IF cp.err # Nil THEN UploadResult(cp.fs, <<>>, 0, cp.err)
                                   ELSE UploadResult(cp.fs, storagePath, cp.n, Nil)

\* the loop body of ListObjects over the sorted entries of dir
RECURSIVE ListEntries(_, _, _, _)
ListEntries(f, dir, entries, filenamePrefix) ==
    IF entries = <<>> THEN <<>>
    ELSE LET name == Head(entries)
             entryPath == Join(dir, name)
             rest == ListEntries(f, dir, Tail(entries), filenamePrefix)
         IN  IF ~HasPrefix(name, filenamePrefix) THEN rest
             ELSE IF IsDir(f, Elems(entryPath)) THEN WalkFiles(f, entryPath) \o rest
                  ELSE <<entryPath>> \o rest

local_ListObjects(f, prefix) ==
    LET absPrefix == Join(StorageDir, prefix)
        sp == Split(absPrefix)
        rd == ReadDir(f, sp.dir)
    IN  IF rd.err # Nil THEN [list |-> <<>>, err |-> Nil]
        ELSE [list |-> ListEntries(f, sp.dir, rd.entries, sp.file), err |-> Nil]

local_DownloadData(f, key) == ReadFile(f, Join(StorageDir, key))

\* DownloadFile opens localPath for reading, creates (truncates) the file at
\* the storage path and copies from the storage file into localPath
local_DownloadFile(f, localPath, key) ==
    LET storagePath == Join(StorageDir, key)
    IN  IF Open(f, localPath) # Nil THEN [fs |-> f, size |-> 0, err |-> Open(f, localPath)]
        ELSE LET mk == MkdirForFile(f, storagePath)
             IN  IF mk.err # Nil THEN [fs |-> mk.fs, size |-> 0, err |-> mk.err]
                 ELSE LET cr == Create(mk.fs, storagePath)
                      IN  IF cr.err # Nil THEN [fs |-> cr.fs, size |-> 0, err |-> cr.err]
                          ELSE LET cp == Copy(cr.fs, localPath, storagePath, FALSE)
                               IN  IF cp.err # Nil THEN [fs |-> cp.fs, size |-> 0, err |-> cp.err]
                                   ELSE [fs |-> cp.fs, size |-> cp.n, err |-> Nil]

\* the loop without the "storagePath == u.StorageDir" test: it stops only at a
\* directory that still has entries
RECURSIVE DeleteLoopNoRootTest(_, _)
DeleteLoopNoRootTest(f, storagePath) ==
    LET rm == Remove(f, storagePath)
    IN  IF rm.err # Nil THEN [fs |-> rm.fs, err |-> rm.err]
        ELSE LET dir == Split(storagePath).dir
                 up == SubSeq(dir, 1, Len(dir) - 1)
                 rd == ReadDir(rm.fs, up)
             IN  IF rd.err # Nil THEN [fs |-> rm.fs, err |-> rd.err]
                 ELSE IF Len(rd.entries) > 0
                      THEN [fs |-> rm.fs, err |-> Nil]
                      ELSE DeleteLoopNoRootTest(rm.fs, up)

\* the for loop of DeleteObject, entered with the joined path
RECURSIVE DeleteLoop(_, _)
DeleteLoop(f, storagePath) ==
    LET rm == Remove(f, storagePath)
    IN  IF rm.err # Nil THEN [fs |-> rm.fs, err |-> rm.err]
        ELSE LET dir == Split(storagePath).dir
                 up == SubSeq(dir, 1, Len(dir) - 1)      \* remove trailing slash
                 rd == ReadDir(rm.fs, up)
             IN  IF rd.err # Nil THEN [fs |-> rm.fs, err |-> rd.err]
                 ELSE IF up = StorageDir \/ Len(rd.entries) > 0
                      THEN [fs |-> rm.fs, err |-> Nil]
                      ELSE DeleteLoop(rm.fs, up)

local_DeleteObject(f, key) == DeleteLoop(f, Join(StorageDir, key))

\* a loop that remembers the first error but goes on to the remaining paths
RECURSIVE local_DeleteObjectsKeepGoing(_, _)
local_DeleteObjectsKeepGoing(f, storagePaths) ==
    IF storagePaths = <<>> THEN [fs |-> f, err |-> Nil, done |-> 0]
    ELSE LET one == local_DeleteObject(f, Head(storagePaths))
             more == local_DeleteObjectsKeepGoing(one.fs, Tail(storagePaths))
         IN  IF one.err # Nil THEN [fs |-> more.fs, err |-> one.err, done |-> 0]
             ELSE [fs |-> more.fs, err |-> more.err, done |-> more.done + 1]

\* DeleteObjects: in list order, stopping at the first error; done counts the
\* paths deleted
RECURSIVE local_DeleteObjects(_, _)
local_DeleteObjects(f, storagePaths) ==
    IF storagePaths = <<>> THEN [fs |-> f, err |-> Nil, done |-> 0]
    ELSE LET one == local_DeleteObject(f, Head(storagePaths))
         IN  IF one.err # Nil THEN [fs |-> one.fs, err |-> one.err, done |-> 0]
             ELSE LET more == local_DeleteObjects(one.fs, Tail(storagePaths))
                  IN  [fs |-> more.fs, err |-> more.err, done |-> more.done + 1]

----------------------------------------------------------------------------
(* The cloud adapters.  The provider's bucket b maps keys to payloads; ok   *)
(* says whether the provider call succeeds once the SDK's retries are      *)
(* spent.                                                                  *)

ErrNotFound == "not found"

\* fmt.Sprintf of the location: the container or bucket URL, "/", the key
azureContainer == <<"c">>
gcpBucketUrl == <<"g">>
s3Bucket == <<"b">>
\* the scheme the S3 adapter writes in front of a location
Https == <<"h", "t", "t", "p", "s", ":", "/", "/">>
aliOSSBucketUrl == <<"o">>

CloudResult(b, loc, size, err) == [bucket |-> b, loc |-> loc, size |-> size, err |-> err]

azure_UploadData(b, data, key, ok) ==
    IF ~ok THEN CloudResult(b, <<>>, 0, ErrProvider)
    ELSE CloudResult(With(b, key, data), azureContainer \o Slash \o key, Len(data), Nil)

\* an upload that reports the bytes copied although Close failed
gcp_uploadSizeOnCloseError(b, data, key, outcome) ==
    LET n == Len(data)
    IN  IF outcome = "copy" THEN CloudResult(b, <<>>, 0, ErrProvider)
        ELSE IF outcome = "close" THEN CloudResult(b, <<>>, n, ErrProvider)
             ELSE CloudResult(With(b, key, data), gcpBucketUrl \o Slash \o key, n, Nil)

\* gcpStorage.upload: io.Copy into the object writer, then Close; outcome is
\* where the provider fails, if it does
gcp_upload(b, data, key, outcome) ==
    LET n == Len(data)      \* io.Copy returns the bytes it copied from the reader
    IN  IF outcome = "copy" THEN CloudResult(b, <<>>, 0, ErrProvider)
        ELSE IF outcome = "close" THEN CloudResult(b, <<>>, 0, ErrProvider)
             ELSE CloudResult(With(b, key, data), gcpBucketUrl \o Slash \o key, n, Nil)

gcp_UploadData(b, data, key, outcome) == gcp_upload(b, data, key, outcome)

\* the end of s3Storage.upload: the location made from the endpoint
\* ("s3.amazonaws.com" when none is configured), the bucket and the key
defaultEndpoint ==
    <<"s", "3", ".", "a", "m", "a", "z", "o", "n", "a", "w", "s", ".", "c", "o", "m">>

s3_location(c, key) ==
    LET endpoint == IF c.Endpoint # <<>> THEN c.Endpoint ELSE defaultEndpoint
    IN  IF c.ForcePathStyle
        THEN (IF ~HasPrefix(endpoint, <<"h", "t", "t", "p">>) THEN Https \o endpoint
              ELSE endpoint) \o Slash \o s3Bucket \o Slash \o key
        ELSE Https \o s3Bucket \o Dot \o endpoint \o Slash \o key

\* s3Storage.upload: the location, or the uploader's error
s3_upload(c, b, data, key, ok) ==
    IF ~ok THEN [bucket |-> b, loc |-> <<>>, err |-> ErrProvider]
    ELSE [bucket |-> With(b, key, data), loc |-> s3_location(c, key), err |-> Nil]

s3_UploadData(c, b, data, key, ok) ==
    LET up == s3_upload(c, b, data, key, ok)
    IN  IF up.err # Nil THEN CloudResult(up.bucket, <<>>, 0, up.err)
        ELSE CloudResult(up.bucket, up.loc, Len(data), Nil)

aliOSS_UploadData(b, data, key, ok) ==
    IF ~ok THEN CloudResult(b, <<>>, 0, ErrProvider)
    ELSE CloudResult(With(b, key, data), aliOSSBucketUrl \o Slash \o key, Len(data), Nil)

\* azblob.DownloadBlobToBuffer(ctx, blobUrl, 0, CountToEnd, buf, ...): the
\* blob's length is fetched, and each block is read into buf[start:start+count].
\* buf is what it holds afterwards; a buffer shorter than the blob makes the
\* slice expression panic.
DownloadBlobToBuffer(b, key, buf, ok) ==
    IF ~ok THEN [buf |-> buf, err |-> ErrProvider]
    ELSE IF key \notin DOMAIN b THEN [buf |-> buf, err |-> ErrNotFound]
         ELSE IF Len(b[key]) = 0 THEN [buf |-> buf, err |-> Nil]
              ELSE IF Len(buf) < Len(b[key]) THEN [buf |-> buf, err |-> Panic]
                   ELSE [buf |-> b[key] \o SubSeq(buf, Len(b[key]) + 1, Len(buf)),
                         err |-> Nil]

\* azureBLOBStorage.DownloadData: b := make([]byte, 0), then the download into b
azure_DownloadData(b, key, ok) ==
    LET buf == <<>>
        dl == DownloadBlobToBuffer(b, key, buf, ok)
    IN  IF dl.err # Nil THEN [data |-> <<>>, err |-> dl.err]
        ELSE [data |-> dl.buf, err |-> Nil]

\* gcpStorage.download: a new client and a reader on the object
gcp_download(b, key, ok) ==
    IF ~ok THEN [size |-> 0, err |-> ErrProvider]
    ELSE IF key \notin DOMAIN b THEN [size |-> 0, err |-> ErrNotFound]
         ELSE [size |-> Len(b[key]), err |-> Nil]

\* one Read(p) on the object reader: it delivers at most n bytes and at most
\* Len(p), and may report io.EOF once nothing is left to read (io.Reader
\* allows both a nil error and io.EOF with the last bytes)
ReaderRead(content, p, n, eof) ==
    LET got == IF n < Len(p) THEN n ELSE Len(p)
        m == IF got < Len(content) THEN got ELSE Len(content)
    IN  [p |-> SubSeq(content, 1, m) \o SubSeq(p, m + 1, Len(p)),
         n |-> m,
         err |-> IF eof /\ m = Len(content) THEN EOF ELSE Nil]

\* gcpStorage.DownloadData: b := make([]byte, rc.Attrs.Size), then one rc.Read(b)
gcp_DownloadData(b, key, ok, n, eof) ==
    LET rc == gcp_download(b, key, ok)
    IN  IF rc.err # Nil THEN [data |-> <<>>, err |-> rc.err]
        ELSE LET buf == [i \in 1..rc.size |-> 0]
                 rd == ReaderRead(b[key], buf, n, eof)
             IN  IF rd.err # Nil THEN [data |-> <<>>, err |-> rd.err]
                 ELSE [data |-> rd.p, err |-> Nil]

\* s3Storage.DownloadData: the downloader fills a WriteAtBuffer
s3_DownloadData(b, key, ok) ==
    IF ~ok THEN [data |-> <<>>, err |-> ErrProvider]
    ELSE IF key \notin DOMAIN b THEN [data |-> <<>>, err |-> ErrNotFound]
         ELSE [data |-> b[key], err |-> Nil]

\* aliOSSStorage.DownloadData: GetObject, then io.ReadAll
aliOSS_DownloadData(b, key, ok) ==
    IF ~ok THEN [data |-> <<>>, err |-> ErrProvider]
    ELSE IF key \notin DOMAIN b THEN [data |-> <<>>, err |-> ErrNotFound]
         ELSE [data |-> b[key], err |-> Nil]

\* aliOSSStorage.GeneratePresignedUrl: bucket.SignURL, which signs locally and
\* rejects an expiration it cannot use
aliOSS_GeneratePresignedUrl(key, signed) ==
    IF ~signed THEN [url |-> <<>>, err |-> ErrProvider]
    ELSE [url |-> aliOSSBucketUrl \o Slash \o key \o <<"?">>, err |-> Nil]

\* the AliOSS adapter of aliyun.go: the four methods are panic("implement me")
aliyun_DownloadData(b, key) == [data |-> <<>>, err |-> Panic]
aliyun_DownloadFile(f, b, filepath, key) == [fs |-> f, size |-> 0, err |-> Panic]
aliyun_GeneratePresignedUrl(key) == [url |-> <<>>, err |-> Panic]
aliyun_Delete(b, key) == [bucket |-> b, err |-> Panic]

\* azureBLOBStorage.GeneratePresignedUrl: panic("implement me"), whatever the
\* configuration holds
azure_GeneratePresignedUrl(c, key) == [url |-> <<>>, err |-> Panic]

\* Delete: one provider call on the object
cloud_Delete(b, key, ok) ==
    IF ~ok THEN [bucket |-> b, err |-> ErrProvider]
    ELSE IF key \notin DOMAIN b THEN [bucket |-> b, err |-> ErrNotFound]
         ELSE [bucket |-> Without(b, {key}), err |-> Nil]

\* ProxyConfig: nil, or a URL ("%": one that url.Parse rejects) with an
\* optional user name and password
NoProxy == [set |-> FALSE, Url |-> "", Username |-> "", Password |-> ""]
ProxyConfigs ==
    {NoProxy} \cup
    [set : {TRUE}, Url : {"u", "%"}, Username : {"", "n"}, Password : {"", "p"}]

\* url.Parse of the proxy URL
url_Parse(u) == IF u = "%" THEN ErrProvider ELSE Nil

\* "Basic " + base64(username + ":" + password) under Proxy-Authorization
basicAuth(pc) == <<"Proxy-Authorization", "Basic ", "base64", pc.Username, ":", pc.Password>>

\* a proxy set-up that sends the header as soon as one of the two is set
ProxiedEitherCredential(transport, pc) ==
    [transport EXCEPT
        !.Proxy = <<"ProxyURL", pc.Url>>,
        !.ProxyConnectHeader =
            IF pc.Username # "" \/ pc.Password # "" THEN basicAuth(pc) ELSE @]

\* the transport with the proxy configuration applied: Proxy = ProxyURL(url),
\* and the CONNECT header when user name and password are both set
Proxied(transport, pc) ==
    [transport EXCEPT
        !.Proxy = <<"ProxyURL", pc.Url>>,
        !.ProxyConnectHeader =
            IF pc.Username # "" /\ pc.Password # "" THEN basicAuth(pc) ELSE @]

\* http.DefaultTransport
DefaultTransport == net.transports[net.default]

\* endpoints: none, a host, a host under the http and the https scheme, and
\* a host whose name starts with the letters http
HostE == <<"e", ".", "i", "o">>
S3Endpoints ==
    { <<>>, HostE, Https \o HostE,
      <<"h", "t", "t", "p", ":", "/", "/">> \o HostE,
      <<"h", "t", "t", "p", "d", ".", "i", "o">> }

S3DefaultConf ==
    [AccessKey |-> "k", Secret |-> "s", AssumeRoleArn |-> "", AssumeRoleExternalId |-> "",
     Region |-> "r1", Endpoint |-> <<>>, ForcePathStyle |-> FALSE,
     MaxRetries |-> 0, MinRetryDelay |-> 0, MaxRetryDelay |-> 0, ProxyConfig |-> NoProxy]

\* S3Config: the fields the adapter reads, "" being the empty string; the
\* credentials and the region, the endpoint and the path style, the retry
\* bounds, and the proxy vary around one configuration
S3Configs ==
    { [S3DefaultConf EXCEPT !.AccessKey = k[1], !.Secret = k[2], !.AssumeRoleArn = r[1],
                            !.AssumeRoleExternalId = r[2], !.Region = g, !.Endpoint = e] :
        k \in {<<"", "">>, <<"k", "">>, <<"k", "s">>},
        r \in {<<"", "">>, <<"arn", "">>, <<"arn", "x">>},
        g \in {"", "r1"}, e \in {<<>>, HostE} }
    \cup { [S3DefaultConf EXCEPT !.Endpoint = e, !.ForcePathStyle = f] :
             e \in S3Endpoints, f \in BOOLEAN }
    \cup { [S3DefaultConf EXCEPT !.MaxRetries = m, !.MinRetryDelay = d[1],
                                 !.MaxRetryDelay = d[2]] :
             m \in {0, 2}, d \in {<<0, 0>>, <<1, 2>>, <<0, 2>>} }
    \cup { [S3DefaultConf EXCEPT !.ProxyConfig = pc] : pc \in ProxyConfigs }

defaultBucketLocation == "us-east-1"

\* a nil aws.CredentialsProvider: LoadDefaultConfig resolves the ambient chain
DefaultChain == [kind |-> "default"]

\* credentials.StaticCredentialsProvider built from the configured key pair
StaticCredentialsProvider(c) == [kind |-> "static", key |-> c.AccessKey]

\* stscreds.NewAssumeRoleProvider on an STS client made from the base
\* configuration; ExternalID is set only for a non-empty external id
AssumeRoleProvider(base, c) ==
    [kind |-> "role", base |-> base.Credentials, arn |-> c.AssumeRoleArn,
     ExternalID |-> IF c.AssumeRoleExternalId # "" THEN c.AssumeRoleExternalId ELSE "nil"]

\* getConf: the aws.Config loaded with the region, the credentials provider,
\* the retryer, the HTTP client's transport (a clone of the default transport
\* with the proxy, when one is configured) and the endpoint
getConf(c, cp, load) ==
    LET failed == [awsConf |-> [Region |-> "", Credentials |-> cp, BaseEndpoint |-> <<>>,
                                Retryer |-> StandardRetryer(c.MaxRetries, c.MaxRetryDelay),
                                Transport |-> DefaultTransport],
                   err |-> ErrProvider]
    IN  IF c.ProxyConfig.set /\ url_Parse(c.ProxyConfig.Url) # Nil THEN failed
        ELSE IF ~load THEN failed
        ELSE [awsConf |->
                [Region |-> IF c.Region # "" THEN c.Region ELSE defaultBucketLocation,
                 Credentials |-> cp,
                 Retryer |-> StandardRetryer(c.MaxRetries, c.MaxRetryDelay),
                 Transport |-> IF c.ProxyConfig.set
                               THEN Proxied(DefaultTransport, c.ProxyConfig)
                               ELSE DefaultTransport,
                 BaseEndpoint |-> c.Endpoint],
              err |-> Nil]

\* a lookup that leaves the region alone whatever the answer
updateRegionKeepsDefault(awsConf, location) ==
    LET call == [Credentials |-> awsConf.Credentials, Region |-> awsConf.Region,
                 answer |-> location]
    IN  IF location = "fail" THEN [awsConf |-> awsConf, lookup |-> <<call>>, err |-> ErrProvider]
        ELSE [awsConf |-> awsConf, lookup |-> <<call>>, err |-> Nil]

\* updateRegion: GetBucketLocation with a client made from awsConf; a
\* non-empty LocationConstraint becomes awsConf.Region
updateRegion(awsConf, location) ==
    LET call == [Credentials |-> awsConf.Credentials, Region |-> awsConf.Region,
                 answer |-> location]
    IN  IF location = "fail" THEN [awsConf |-> awsConf, lookup |-> <<call>>, err |-> ErrProvider]
        ELSE [awsConf |-> IF location # "" THEN [awsConf EXCEPT !.Region = location]
                          ELSE awsConf,
              lookup |-> <<call>>, err |-> Nil]

NoClient == [built |-> FALSE]

S3Failed(lookup, err) == [client |-> NoClient, lookup |-> lookup, err |-> err]

\* the tail of NewS3: the region lookup when neither Region nor Endpoint is set
S3Locate(c, awsConf, env) ==
    IF c.Region = "" /\ c.Endpoint = <<>>
    THEN LET up == updateRegion(awsConf, env.location)
         IN  IF up.err # Nil THEN S3Failed(up.lookup, up.err)
             ELSE [client |-> [built |-> TRUE, awsConf |-> up.awsConf, lookup |-> up.lookup],
                   lookup |-> up.lookup, err |-> Nil]
    ELSE [client |-> [built |-> TRUE, awsConf |-> awsConf, lookup |-> <<>>],
          lookup |-> <<>>, err |-> Nil]

\* a constructor that keeps the configuration made with the base credentials
NewS3BaseCredentials(c, env) ==
    LET cp == IF c.AccessKey # "" /\ c.Secret # "" THEN StaticCredentialsProvider(c)
              ELSE DefaultChain
        base == getConf(c, cp, env.load)
    IN  IF base.err # Nil THEN S3Failed(<<>>, base.err)
        ELSE S3Locate(c, base.awsConf, env)

\* NewS3.  env is what the outside answers: whether the configuration loads,
\* and the bucket's location ("fail": the lookup fails; "": no constraint)
NewS3(c, env) ==
    LET cp == IF c.AccessKey # "" /\ c.Secret # "" THEN StaticCredentialsProvider(c)
              ELSE DefaultChain
        base == getConf(c, cp, env.load)
    IN  IF base.err # Nil THEN S3Failed(<<>>, base.err)
        ELSE IF c.AssumeRoleArn # ""
             THEN LET role == getConf(c, AssumeRoleProvider(base.awsConf, c), env.load)
                  IN  IF role.err # Nil THEN S3Failed(<<>>, role.err)
                      ELSE S3Locate(c, role.awsConf, env)
             ELSE S3Locate(c, base.awsConf, env)

\* GCPConfig: the credentials JSON ("bad": JSON that does not parse) and the
\* proxy configuration
GCPConfigs ==
    [CredentialsJSON : {"", "json", "bad"}, ProxyConfig : ProxyConfigs]

\* (*http.Transport).Clone: a new transport object with the same settings
Clone(n, i) == [n EXCEPT !.transports = Append(@, n.transports[i])]

\* NewGCP.  n is the process's http.DefaultTransport state, newClient whether
\* storage.NewClient succeeds.  The clone is taken first, the proxy is set on
\* the transport object that is the default, and the default is then pointed
\* at the clone.
NewGCP(c, n, newClient) ==
    IF c.CredentialsJSON = "bad" THEN [net |-> n, client |-> NoClient, err |-> ErrProvider]
    ELSE IF c.ProxyConfig.set /\ url_Parse(c.ProxyConfig.Url) # Nil
         THEN [net |-> n, client |-> NoClient, err |-> ErrProvider]
         ELSE LET defaultTransport == n.default
                  cloned == Clone(n, defaultTransport)
                  transportClone == Len(cloned.transports)
                  proxied ==
                      IF ~c.ProxyConfig.set THEN cloned
                      ELSE [cloned EXCEPT
                              !.transports[defaultTransport] = Proxied(@, c.ProxyConfig)]
                  \* storage.NewClient builds its HTTP client on the default transport
                  built == [built |-> TRUE,
                            transport |-> proxied.transports[proxied.default]]
                  restored == [proxied EXCEPT !.default = transportClone]
              IN  IF ~newClient THEN [net |-> restored, client |-> NoClient, err |-> ErrProvider]
                  ELSE [net |-> restored, client |-> built, err |-> Nil]

\* UploadFile on the bucket adapters.  f is the disk when the call opens the
\* file, streamed the bytes the file holds when the SDK reads it.

\* azureBLOBStorage.UploadFile: Open, Stat, UploadFileToBlockBlob; the size is
\* stat.Size()
azure_UploadFile(f, b, filepath, key, streamed, ok) ==
    IF Open(f, filepath) # Nil THEN CloudResult(b, <<>>, 0, Open(f, filepath))
    ELSE LET stat == Stat(f, filepath)
         IN  IF ~ok THEN CloudResult(b, <<>>, 0, ErrProvider)
             ELSE CloudResult(With(b, key, streamed), azureContainer \o Slash \o key,
                              stat.size, Nil)

\* gcpStorage.UploadFile: Open, then upload(file); the size is io.Copy's count
gcp_UploadFile(f, b, filepath, key, streamed, outcome) ==
    IF Open(f, filepath) # Nil THEN CloudResult(b, <<>>, 0, Open(f, filepath))
    ELSE gcp_upload(b, streamed, key, outcome)

\* s3Storage.UploadFile: Open, Stat, upload(file); the size is stat.Size()
s3_UploadFile(c, f, b, filepath, key, streamed, ok) ==
    IF Open(f, filepath) # Nil THEN CloudResult(b, <<>>, 0, Open(f, filepath))
    ELSE LET stat == Stat(f, filepath)
             up == s3_upload(c, b, streamed, key, ok)
         IN  IF up.err # Nil THEN CloudResult(b, <<>>, 0, up.err)
             ELSE CloudResult(up.bucket, up.loc, stat.size, Nil)

\* aliOSSStorage.UploadFile: os.Stat, PutObjectFromFile; the size is info.Size()
aliOSS_UploadFile(f, b, filepath, key, streamed, ok) ==
    LET info == Stat(f, filepath)
    IN  IF info.err # Nil THEN CloudResult(b, <<>>, 0, info.err)
        ELSE IF ~ok THEN CloudResult(b, <<>>, 0, ErrProvider)
             ELSE CloudResult(With(b, key, streamed), aliOSSBucketUrl \o Slash \o key,
                              info.size, Nil)

\* the provider's answer to a request for the object at key
GetObject(b, key, ok) ==
    IF ~ok THEN [data |-> <<>>, err |-> ErrProvider]
    ELSE IF key \notin DOMAIN b THEN [data |-> <<>>, err |-> ErrNotFound]
         ELSE [data |-> b[key], err |-> Nil]

\* os.Create(filepath), then the object's bytes are written into the file:
\* the body shared by DownloadFile of the S3, GCP and Azure adapters
CreateAndFill(f, b, filepath, key, ok) ==
    LET cr == Create(f, filepath)
    IN  IF cr.err # Nil THEN [fs |-> cr.fs, size |-> 0, err |-> cr.err]
        ELSE LET get == GetObject(b, key, ok)
             IN  IF get.err # Nil THEN [fs |-> cr.fs, size |-> 0, err |-> get.err]
                 ELSE LET wr == Write(cr.fs, filepath, get.data)
                      IN  [fs |-> wr.fs, size |-> Len(get.data), err |-> Nil]

\* s3Storage.DownloadFile: os.Create, then the downloader writes into the file
s3_DownloadFile(f, b, filepath, key, ok) == CreateAndFill(f, b, filepath, key, ok)

\* gcpStorage.DownloadFile: os.Create, download, io.Copy(file, rc); the size is
\* rc.Attrs.Size
gcp_DownloadFile(f, b, filepath, key, ok) == CreateAndFill(f, b, filepath, key, ok)

\* azureBLOBStorage.DownloadFile: os.Create, DownloadBlobToFile, file.Stat
azure_DownloadFile(f, b, filepath, key, ok) ==
    LET dl == CreateAndFill(f, b, filepath, key, ok)
    IN  IF dl.err # Nil THEN dl
        ELSE [dl EXCEPT !.size = Stat(dl.fs, filepath).size]

\* aliOSSStorage.DownloadFile: GetObjectToFile fetches the object, writes it to
\* a temporary file beside filepath and renames it; then os.Stat
aliOSS_DownloadFile(f, b, filepath, key, ok) ==
    LET get == GetObject(b, key, ok)
    IN  IF get.err # Nil THEN [fs |-> f, size |-> 0, err |-> get.err]
        ELSE LET cr == Create(f, filepath)
             IN  IF cr.err # Nil THEN [fs |-> cr.fs, size |-> 0, err |-> cr.err]
                 ELSE LET wr == Write(cr.fs, filepath, get.data)
                      IN  [fs |-> wr.fs, size |-> Stat(wr.fs, filepath).size, err |-> Nil]

----------------------------------------------------------------------------
(* State: the adapter under use, the filesystem, the provider bucket and   *)
(* the record of the last call (its arguments and what it returned)        *)

NoCall ==
    [op |-> "none", path |-> <<>>, data |-> <<>>, localPath |-> <<>>, paths |-> <<>>,
     loc |-> <<>>, size |-> 0, err |-> Nil, out |-> <<>>, list |-> <<>>,
     region |-> "", creds |-> [kind |-> "none"], lookup |-> <<>>, attempts |-> 0, delay |-> 0]

\* what is on disk before the adapter is used: the directory above the root
\* and a directory of local files; the root either does not exist yet
\* (NewLocal does not create it) or exists, empty, beside a directory whose
\* name starts with the root's name
SiblingDir == <<"/", "r", "/", "s", ".">>
SiblingFile == <<"/", "r", "/", "s", ".", "/", "a">>

FSBase ==
    ( Elems(Slash) :> DirNode ) @@ ( Elems(<<"/", "r">>) :> DirNode )
      @@ ( Elems(<<"/", "l">>) :> DirNode ) @@ ( Elems(LocalFile) :> FileNode(Payload(1)) )

FSSibling ==
    FSBase @@ ( Elems(StorageDir) :> DirNode ) @@ ( Elems(SiblingDir) :> DirNode )
      @@ ( Elems(SiblingFile) :> FileNode(Payload(1)) )

InitFS == {FSBase, FSSibling}

EmptyBucket == [k \in {} |-> <<>>]

\* the process-wide http.DefaultTransport: the transport objects made so far
\* and which of them the variable points to
InitNet ==
    [transports |-> << [Proxy |-> <<"ProxyFromEnvironment">>,
                        ProxyConnectHeader |-> <<>>] >>,
     default |-> 1]

\* the configurations the adapters are built from when their calls are explored
ConfOf(a) ==
    IF a = "s3" THEN {S3DefaultConf}
    ELSE IF a = "azure" THEN {[TokenCredential |-> t] : t \in BOOLEAN}
         ELSE {[kind |-> a]}

\* the adapter as its constructor leaves it
ClientOf(a, c) ==
    IF a = "s3" THEN NewS3(c, [load |-> TRUE, location |-> "fail"]).client
    ELSE [built |-> TRUE]

Init ==
    /\ adapter \in Adapters
    /\ fs \in (IF adapter = "local" THEN InitFS ELSE {FSBase})
    /\ bucket = EmptyBucket
    /\ last = NoCall
    /\ conf \in ConfOf(adapter)
    /\ net = InitNet
    /\ procs = <<>>
    /\ client = ClientOf(adapter, conf)

----------------------------------------------------------------------------
(* The calls on the local adapter                                          *)

LocalUploadData ==
    /\ adapter = "local"
    /\ \E data \in Data, key \in UploadPaths :
         LET r == local_UploadData(fs, data, key)
         IN  /\ fs' = r.fs
             /\ last' = [NoCall EXCEPT !.op = "UploadData", !.path = key, !.data = data,
                                       !.loc = r.loc, !.size = r.size, !.err = r.err]
    /\ UNCHANGED <<procs, adapter, conf, client, net, bucket>>

LocalUploadFile ==
    /\ adapter = "local"
    /\ \E localPath \in LocalPaths \cup {LocalDir}, key \in FilePaths :
       \E streamed \in Streamed(fs, localPath) :
         LET r == local_UploadFile(Rewritten(fs, localPath, streamed), localPath, key)
         IN  /\ fs' = r.fs
             /\ last' = [NoCall EXCEPT !.op = "UploadFile", !.path = key,
                                       !.localPath = localPath,
                                       !.loc = r.loc, !.size = r.size, !.err = r.err]
    /\ UNCHANGED <<procs, adapter, conf, client, net, bucket>>

LocalListObjects ==
    /\ adapter = "local"
    /\ \E prefix \in StoragePaths :
         LET r == local_ListObjects(fs, prefix)
         IN  last' = [NoCall EXCEPT !.op = "ListObjects", !.path = prefix,
                                    !.list = r.list, !.err = r.err]
    /\ UNCHANGED <<procs, adapter, conf, client, net, fs, bucket>>

LocalDownloadData ==
    /\ adapter = "local"
    /\ \E key \in StoragePaths :
         LET r == local_DownloadData(fs, key)
         IN  last' = [NoCall EXCEPT !.op = "DownloadData", !.path = key,
                                    !.out = r.data, !.err = r.err]
    /\ UNCHANGED <<procs, adapter, conf, client, net, fs, bucket>>

LocalDownloadFile ==
    /\ adapter = "local"
    /\ \E localPath \in LocalPaths \cup {LocalDeep}, key \in FilePaths :
         LET r == local_DownloadFile(fs, localPath, key)
         IN  /\ fs' = r.fs
             /\ last' = [NoCall EXCEPT !.op = "DownloadFile", !.path = key,
                                       !.localPath = localPath,
                                       !.size = r.size, !.err = r.err]
    /\ UNCHANGED <<procs, adapter, conf, client, net, bucket>>

LocalDeleteObject ==
    /\ adapter = "local"
    /\ \E key \in StoragePaths :
         LET r == local_DeleteObject(fs, key)
         IN  /\ fs' = r.fs
             /\ last' = [NoCall EXCEPT !.op = "DeleteObject", !.path = key, !.err = r.err]
    /\ UNCHANGED <<procs, adapter, conf, client, net, bucket>>

LocalDeleteObjects ==
    /\ adapter = "local"
    /\ \E storagePaths \in DeleteLists :
         LET r == local_DeleteObjects(fs, storagePaths)
         IN  /\ fs' = r.fs
             /\ last' = [NoCall EXCEPT !.op = "DeleteObjects", !.paths = storagePaths,
                                       !.size = r.done, !.err = r.err]
    /\ UNCHANGED <<procs, adapter, conf, client, net, bucket>>

LocalNext ==
    \/ LocalUploadData
    \/ LocalUploadFile
    \/ LocalListObjects
    \/ LocalDownloadData
    \/ LocalDownloadFile
    \/ LocalDeleteObject
    \/ LocalDeleteObjects

----------------------------------------------------------------------------
(* The calls on the cloud adapters                                         *)

\* the record of a call on a bucket adapter: the S3 adapter makes a client
\* from s.awsConf for every call, with its region and credentials
Call ==
    IF adapter = "s3"
    THEN [NoCall EXCEPT !.region = client.awsConf.Region,
                        !.creds = client.awsConf.Credentials]
    ELSE NoCall

Uploaded(r, data, key) ==
    /\ bucket' = r.bucket
    /\ last' = [Call EXCEPT !.op = "UploadData", !.path = key, !.data = data,
                              !.loc = r.loc, !.size = r.size, !.err = r.err,
                              !.attempts = r.attempts, !.delay = r.delay]
    /\ UNCHANGED <<procs, adapter, conf, client, net, fs>>

Downloaded(r, key) ==
    /\ last' = [Call EXCEPT !.op = "DownloadData", !.path = key,
                              !.out = r.data, !.err = r.err, !.attempts = r.attempts, !.delay = r.delay]
    /\ UNCHANGED <<procs, adapter, conf, client, net, fs, bucket>>

AzureUploadData ==
    /\ adapter = "azure"
    /\ \E data \in Data, key \in CloudKeys, faults \in Faults :
         LET run == Retry(azureRetry, faults)
         IN  Uploaded(Retried(azure_UploadData(bucket, data, key, run.ok), run), data, key)

GcpUploadData ==
    /\ adapter = "gcp"
    /\ \E data \in Data, key \in CloudKeys, faults \in Faults, stage \in {"copy", "close"} :
         LET run == Retry(gcpUploadRetry, faults)
             outcome == IF run.ok THEN "ok" ELSE stage
         IN  Uploaded(Retried(gcp_UploadData(bucket, data, key, outcome), run), data, key)

S3UploadData ==
    /\ adapter = "s3" /\ client.built
    /\ \E data \in Data, key \in CloudKeys, faults \in Faults,
          delay \in BackoffDelay(client.awsConf.Retryer) :
         LET run == Retry(client.awsConf.Retryer, faults)
         IN  Uploaded(Backoff(Retried(s3_UploadData(conf, bucket, data, key, run.ok), run),
                              delay),
                      data, key)

AliOSSUploadData ==
    /\ adapter \in {"alioss", "aliyun"}
    /\ \E data \in Data, key \in CloudKeys, ok \in BOOLEAN :
         Uploaded(Once(aliOSS_UploadData(bucket, data, key, ok)), data, key)

AzureDownloadData ==
    /\ adapter = "azure"
    /\ \E key \in CloudKeys, faults \in Faults :
         LET run == Retry(azureRetry, faults)
         IN  Downloaded(Retried(azure_DownloadData(bucket, key, run.ok), run), key)

GcpDownloadData ==
    /\ adapter = "gcp"
    /\ \E key \in CloudKeys, faults \in Faults, n \in 1..MaxDataLen, eof \in BOOLEAN :
         LET run == Retry(gcpDownloadRetry, faults)
         IN  Downloaded(Retried(gcp_DownloadData(bucket, key, run.ok, n, eof), run), key)

S3DownloadData ==
    /\ adapter = "s3" /\ client.built
    /\ \E key \in CloudKeys, faults \in Faults,
          delay \in BackoffDelay(client.awsConf.Retryer) :
         LET run == Retry(client.awsConf.Retryer, faults)
         IN  Downloaded(Backoff(Retried(s3_DownloadData(bucket, key, run.ok), run), delay),
                        key)

AliOSSDownloadData ==
    /\ adapter = "alioss"
    /\ \E key \in CloudKeys, ok \in BOOLEAN :
         Downloaded(Once(aliOSS_DownloadData(bucket, key, ok)), key)

CloudDelete ==
    /\ adapter \notin {"local", "aliyun"} /\ client.built
    /\ \E key \in CloudKeys, ok \in BOOLEAN :
         LET r == cloud_Delete(bucket, key, ok)
         IN  /\ bucket' = r.bucket
             /\ last' = [Call EXCEPT !.op = "Delete", !.path = key, !.err = r.err]
    /\ UNCHANGED <<procs, adapter, conf, client, net, fs>>

\* UploadFile on a bucket adapter: the source file may be rewritten by another
\* process between the moment it is opened and the moment it is read
UploadedFile(r, localPath, key, streamed) ==
    /\ fs' = Rewritten(fs, localPath, streamed)
    /\ bucket' = r.bucket
    /\ last' = [Call EXCEPT !.op = "UploadFile", !.path = key, !.localPath = localPath,
                              !.loc = r.loc, !.size = r.size, !.err = r.err,
                              !.attempts = r.attempts, !.delay = r.delay]
    /\ UNCHANGED <<procs, adapter, conf, client, net>>

DownloadedFile(r, localPath, key) ==
    /\ fs' = r.fs
    /\ last' = [Call EXCEPT !.op = "DownloadFile", !.path = key,
                              !.localPath = localPath, !.size = r.size, !.err = r.err,
                              !.attempts = r.attempts, !.delay = r.delay]
    /\ UNCHANGED <<procs, adapter, conf, client, net, bucket>>

AzureUploadFile ==
    /\ adapter = "azure"
    /\ \E localPath \in LocalPaths, key \in FileKeys, faults \in Faults :
       \E streamed \in Streamed(fs, localPath) :
         LET run == Retry(azureRetry, faults)
         IN  UploadedFile(Retried(azure_UploadFile(fs, bucket, localPath, key, streamed,
                                                   run.ok), run),
                          localPath, key, streamed)

GcpUploadFile ==
    /\ adapter = "gcp"
    /\ \E localPath \in LocalPaths, key \in FileKeys, faults \in Faults,
          stage \in {"copy", "close"} :
       \E streamed \in Streamed(fs, localPath) :
         LET run == Retry(gcpUploadRetry, faults)
             outcome == IF run.ok THEN "ok" ELSE stage
         IN  UploadedFile(Retried(gcp_UploadFile(fs, bucket, localPath, key, streamed,
                                                 outcome), run),
                          localPath, key, streamed)

S3UploadFile ==
    /\ adapter = "s3" /\ client.built
    /\ \E localPath \in LocalPaths, key \in FileKeys, faults \in Faults,
          delay \in BackoffDelay(client.awsConf.Retryer) :
       \E streamed \in Streamed(fs, localPath) :
         LET run == Retry(client.awsConf.Retryer, faults)
         IN  UploadedFile(Backoff(Retried(s3_UploadFile(conf, fs, bucket, localPath, key,
                                                        streamed, run.ok), run),
                                  delay),
                          localPath, key, streamed)

AliOSSUploadFile ==
    /\ adapter \in {"alioss", "aliyun"}
    /\ \E localPath \in LocalPaths, key \in FileKeys, ok \in BOOLEAN :
       \E streamed \in Streamed(fs, localPath) :
         UploadedFile(Once(aliOSS_UploadFile(fs, bucket, localPath, key, streamed, ok)),
                      localPath, key, streamed)

AzureDownloadFile ==
    /\ adapter = "azure"
    /\ \E localPath \in DownloadPaths, key \in FileKeys, faults \in Faults :
         LET run == Retry(azureRetry, faults)
         IN  DownloadedFile(Retried(azure_DownloadFile(fs, bucket, localPath, key, run.ok), run),
                            localPath, key)

GcpDownloadFile ==
    /\ adapter = "gcp"
    /\ \E localPath \in DownloadPaths, key \in FileKeys, faults \in Faults :
         LET run == Retry(gcpDownloadRetry, faults)
         IN  DownloadedFile(Retried(gcp_DownloadFile(fs, bucket, localPath, key, run.ok), run),
                            localPath, key)

S3DownloadFile ==
    /\ adapter = "s3" /\ client.built
    /\ \E localPath \in DownloadPaths, key \in FileKeys, faults \in Faults :
         LET run == Retry(client.awsConf.Retryer, faults)
         IN  \E delay \in BackoffDelay(client.awsConf.Retryer) :
               DownloadedFile(Backoff(Retried(s3_DownloadFile(fs, bucket, localPath, key,
                                                              run.ok), run),
                                      delay),
                              localPath, key)

AliOSSDownloadFile ==
    /\ adapter = "alioss"
    /\ \E localPath \in DownloadPaths, key \in FileKeys, ok \in BOOLEAN :
         DownloadedFile(Once(aliOSS_DownloadFile(fs, bucket, localPath, key, ok)),
                        localPath, key)

Presigned(r, key) ==
    /\ last' = [Call EXCEPT !.op = "GeneratePresignedUrl", !.path = key,
                            !.loc = r.url, !.err = r.err]
    /\ UNCHANGED <<procs, adapter, fs, bucket, conf, client, net>>

AliOSSGeneratePresignedUrl ==
    /\ adapter = "alioss"
    /\ \E key \in CloudKeys, signed \in BOOLEAN :
         Presigned(aliOSS_GeneratePresignedUrl(key, signed), key)

AzureGeneratePresignedUrl ==
    /\ adapter = "azure"
    /\ \E key \in CloudKeys : Presigned(azure_GeneratePresignedUrl(conf, key), key)

AliyunDownloadData ==
    /\ adapter = "aliyun"
    /\ \E key \in CloudKeys : Downloaded(Once(aliyun_DownloadData(bucket, key)), key)

AliyunDownloadFile ==
    /\ adapter = "aliyun"
    /\ \E localPath \in DownloadPaths, key \in FileKeys :
         DownloadedFile(Once(aliyun_DownloadFile(fs, bucket, localPath, key)), localPath, key)

AliyunGeneratePresignedUrl ==
    /\ adapter = "aliyun"
    /\ \E key \in CloudKeys : Presigned(aliyun_GeneratePresignedUrl(key), key)

AliyunDelete ==
    /\ adapter = "aliyun"
    /\ \E key \in CloudKeys :
         LET r == aliyun_Delete(bucket, key)
         IN  /\ bucket' = r.bucket
             /\ last' = [Call EXCEPT !.op = "Delete", !.path = key, !.err = r.err]
    /\ UNCHANGED <<procs, adapter, fs, conf, client, net>>

CloudNext ==
    \/ AliOSSGeneratePresignedUrl
    \/ AzureGeneratePresignedUrl
    \/ AliyunDownloadData
    \/ AliyunDownloadFile
    \/ AliyunGeneratePresignedUrl
    \/ AliyunDelete
    \/ AzureUploadFile
    \/ GcpUploadFile
    \/ S3UploadFile
    \/ AliOSSUploadFile
    \/ AzureDownloadFile
    \/ GcpDownloadFile
    \/ S3DownloadFile
    \/ AliOSSDownloadFile
    \/ AzureUploadData
    \/ GcpUploadData
    \/ S3UploadData
    \/ AliOSSUploadData
    \/ AzureDownloadData
    \/ GcpDownloadData
    \/ S3DownloadData
    \/ AliOSSDownloadData
    \/ CloudDelete

Next == LocalNext \/ CloudNext

Spec == Init /\ [][Next]_vars

----------------------------------------------------------------------------
(* Construction of GCP adapters in one process                             *)

\* the number of transport objects explored
MaxTransports == 4

NewGCPCall ==
    /\ adapter = "gcp"
    /\ Len(net.transports) < MaxTransports
    /\ \E c \in GCPConfigs, newClient \in BOOLEAN :
         LET r == NewGCP(c, net, newClient)
         IN  /\ conf' = c
             /\ net' = r.net
             /\ client' = r.client
             /\ last' = [NoCall EXCEPT !.op = "NewGCP", !.err = r.err]
    /\ UNCHANGED <<procs, adapter, fs, bucket>>

InitNewGCP ==
    /\ adapter = "gcp"
    /\ fs = FSBase
    /\ bucket = EmptyBucket
    /\ last = NoCall
    /\ conf \in GCPConfigs
    /\ client = NoClient
    /\ net = InitNet
    /\ procs = <<>>

NextNewGCP == NewGCPCall

SpecNewGCP == InitNewGCP /\ [][NextNewGCP]_vars

----------------------------------------------------------------------------
(* Construction of the S3 adapter                                          *)

\* what the outside answers to NewS3
S3Envs == [load : BOOLEAN, location : {"fail", "", "r2"}]

NewS3Call ==
    /\ adapter = "s3" /\ ~client.built
    /\ \E env \in S3Envs :
         LET r == NewS3(conf, env)
         IN  /\ client' = r.client
             /\ last' = [NoCall EXCEPT !.op = "NewS3", !.err = r.err, !.lookup = r.lookup]
    /\ UNCHANGED <<procs, adapter, fs, bucket, conf, net>>

InitNewS3 ==
    /\ adapter = "s3"
    /\ fs = FSBase
    /\ bucket = EmptyBucket
    /\ last = NoCall
    /\ conf \in S3Configs
    /\ client = NoClient
    /\ net = InitNet
    /\ procs = <<>>

\* NewS3, then the calls of the adapter that touch only the bucket
NextNewS3 ==
    \/ NewS3Call
    \/ S3UploadData
    \/ S3DownloadData
    \/ CloudDelete

SpecNewS3 == InitNewS3 /\ [][NextNewS3]_vars

----------------------------------------------------------------------------
(* The local adapter used as an object store: uploads and deletes on keys  *)
(* under the root, the root being there and empty at the start             *)

\* the storage path of key lies strictly beneath the root
UnderRoot(key) == HasPrefix(Join(StorageDir, key), StorageDir \o Slash)

KeysUnderRoot(call) ==
    IF call.op = "DeleteObjects" THEN \A i \in 1..Len(call.paths) : UnderRoot(call.paths[i])
    ELSE UnderRoot(call.path)

InitStore ==
    /\ adapter = "local"
    /\ fs = FSSibling
    /\ bucket = EmptyBucket
    /\ last = NoCall
    /\ conf \in ConfOf(adapter)
    /\ net = InitNet
    /\ procs = <<>>
    /\ client = ClientOf(adapter, conf)

NextStore ==
    \/ LocalUploadData /\ KeysUnderRoot(last')
    \/ LocalUploadFile /\ KeysUnderRoot(last')
    \/ LocalDeleteObject /\ KeysUnderRoot(last')
    \/ LocalDeleteObjects /\ KeysUnderRoot(last')

SpecStore == InitStore /\ [][NextStore]_vars

----------------------------------------------------------------------------
(* Calls running concurrently on one adapter, and constructors running     *)
(* concurrently in one process.  Each call is a goroutine that advances by *)
(* one system call, or one statement on the shared transport, at a time.   *)
(* procs[p] is goroutine p: the call, where it stands (pc), its arguments, *)
(* its local variables and, once pc is "done", what it returned.           *)

Goroutine(op, pc) ==
    [op |-> op, pc |-> pc, key |-> <<>>, data |-> <<>>, path |-> <<>>,
     err |-> Nil, out |-> <<>>, size |-> 0,
     c |-> [CredentialsJSON |-> "", ProxyConfig |-> NoProxy],
     defaultTransport |-> 0, transportClone |-> 0,
     transport |-> InitNet.transports[1], built |-> FALSE]

GoUploadData(data, key) ==
    [Goroutine("UploadData", "MkdirAll") EXCEPT !.data = data, !.key = key]
GoDeleteObject(key) ==
    [Goroutine("DeleteObject", "Remove") EXCEPT !.key = key,
                                                !.path = Join(StorageDir, key)]
GoDownloadData(key) == [Goroutine("DownloadData", "ReadFile") EXCEPT !.key = key]
GoNewGCP(c) == [Goroutine("NewGCP", "DefaultTransport") EXCEPT !.c = c]

Return(p, err) == [procs EXCEPT ![p].pc = "done", ![p].err = err]

\* UploadData, local.go 71-92: MkdirAll, Create, Write
UploadDataMkdirAll ==
    \E p \in DOMAIN procs :
        /\ procs[p].op = "UploadData" /\ procs[p].pc = "MkdirAll"
        /\ LET mk == MkdirForFile(fs, Join(StorageDir, procs[p].key))
           IN  /\ fs' = mk.fs
               /\ procs' = IF mk.err # Nil THEN Return(p, mk.err)
                            ELSE [procs EXCEPT ![p].pc = "Create"]
        /\ UNCHANGED <<adapter, bucket, last, conf, client, net>>

UploadDataCreate ==
    \E p \in DOMAIN procs :
        /\ procs[p].op = "UploadData" /\ procs[p].pc = "Create"
        /\ LET cr == Create(fs, Join(StorageDir, procs[p].key))
           IN  /\ fs' = cr.fs
               /\ procs' = IF cr.err # Nil THEN Return(p, cr.err)
                            ELSE [procs EXCEPT ![p].pc = "Write"]
        /\ UNCHANGED <<adapter, bucket, last, conf, client, net>>

\* the write goes to the file the goroutine holds open; a file unlinked in
\* the meantime takes the bytes with it
UploadDataWrite ==
    \E p \in DOMAIN procs :
        /\ procs[p].op = "UploadData" /\ procs[p].pc = "Write"
        /\ LET storagePath == Join(StorageDir, procs[p].key)
           IN  /\ fs' = IF IsFile(fs, Elems(storagePath))
                         THEN Write(fs, storagePath, procs[p].data).fs ELSE fs
               /\ procs' = [Return(p, Nil) EXCEPT ![p].size = Len(procs[p].data)]
        /\ UNCHANGED <<adapter, bucket, last, conf, client, net>>

\* DeleteObject, local.go 167-186: Remove, then ReadDir of the directory above
DeleteObjectRemove ==
    \E p \in DOMAIN procs :
        /\ procs[p].op = "DeleteObject" /\ procs[p].pc = "Remove"
        /\ LET rm == Remove(fs, procs[p].path)
               dir == Split(procs[p].path).dir
           IN  /\ fs' = rm.fs
               /\ procs' = IF rm.err # Nil THEN Return(p, rm.err)
                            ELSE [procs EXCEPT ![p].pc = "ReadDir",
                                               ![p].path = SubSeq(dir, 1, Len(dir) - 1)]
        /\ UNCHANGED <<adapter, bucket, last, conf, client, net>>

DeleteObjectReadDir ==
    \E p \in DOMAIN procs :
        /\ procs[p].op = "DeleteObject" /\ procs[p].pc = "ReadDir"
        /\ LET rd == ReadDir(fs, procs[p].path)
           IN  procs' = IF rd.err # Nil THEN Return(p, rd.err)
                        ELSE IF procs[p].path = StorageDir \/ Len(rd.entries) > 0
                             THEN Return(p, Nil)
                             ELSE [procs EXCEPT ![p].pc = "Remove"]
        /\ UNCHANGED <<adapter, fs, bucket, last, conf, client, net>>

\* DownloadData, local.go 130-132: os.ReadFile
DownloadDataReadFile ==
    \E p \in DOMAIN procs :
        /\ procs[p].op = "DownloadData" /\ procs[p].pc = "ReadFile"
        /\ LET rf == ReadFile(fs, Join(StorageDir, procs[p].key))
           IN  procs' = [Return(p, rf.err) EXCEPT ![p].out = rf.data]
        /\ UNCHANGED <<adapter, fs, bucket, last, conf, client, net>>

\* NewGCP, gcp.go 43-83, statement by statement
NewGCPDefaultTransport ==
    \E p \in DOMAIN procs :
        /\ procs[p].op = "NewGCP" /\ procs[p].pc = "DefaultTransport"
        /\ procs' = IF procs[p].c.CredentialsJSON = "bad" THEN Return(p, ErrProvider)
                     ELSE [procs EXCEPT ![p].pc = "Clone", ![p].defaultTransport = net.default]
        /\ UNCHANGED <<adapter, fs, bucket, last, conf, client, net>>

NewGCPClone ==
    \E p \in DOMAIN procs :
        /\ procs[p].op = "NewGCP" /\ procs[p].pc = "Clone"
        /\ net' = Clone(net, procs[p].defaultTransport)
        /\ procs' = [procs EXCEPT ![p].pc = "Proxy", ![p].transportClone = Len(net'.transports)]
        /\ UNCHANGED <<adapter, fs, bucket, last, conf, client>>

NewGCPProxy ==
    \E p \in DOMAIN procs :
        /\ procs[p].op = "NewGCP" /\ procs[p].pc = "Proxy"
        /\ LET pc == procs[p].c.ProxyConfig
           IN  IF ~pc.set THEN net' = net /\ procs' = [procs EXCEPT ![p].pc = "NewClient"]
               ELSE IF url_Parse(pc.Url) # Nil
                    THEN net' = net /\ procs' = Return(p, ErrProvider)
                    ELSE /\ net' = [net EXCEPT !.transports[procs[p].defaultTransport] =
                                                    Proxied(@, pc)]
                         /\ procs' = [procs EXCEPT ![p].pc = "NewClient"]
        /\ UNCHANGED <<adapter, fs, bucket, last, conf, client>>

NewGCPNewClient ==
    \E p \in DOMAIN procs :
        /\ procs[p].op = "NewGCP" /\ procs[p].pc = "NewClient"
        /\ \E newClient \in BOOLEAN :
             procs' = [procs EXCEPT ![p].pc = "Restore", ![p].built = newClient,
                                    ![p].transport = net.transports[net.default]]
        /\ UNCHANGED <<adapter, fs, bucket, last, conf, client, net>>

NewGCPRestore ==
    \E p \in DOMAIN procs :
        /\ procs[p].op = "NewGCP" /\ procs[p].pc = "Restore"
        /\ net' = [net EXCEPT !.default = procs[p].transportClone]
        /\ procs' = Return(p, IF procs[p].built THEN Nil ELSE ErrProvider)
        /\ UNCHANGED <<adapter, fs, bucket, last, conf, client>>

\* the store holding the objects in keys, each with one byte
RECURSIVE StoreOf(_)
StoreOf(keys) ==
    IF keys = <<>> THEN FSSibling
    ELSE local_UploadData(StoreOf(Tail(keys)), Payload(1), Head(keys)).fs

KeyAX == <<"a", "/", "x">>
KeyAY == <<"a", "/", "y">>
KeyAAX == <<"a", "/", "a", "/", "x">>
KeyAFY == <<"a", "/", "f", "/", "y">>

\* the pairs of calls explored, with the store they start from
Scenarios ==
    { [adapter |-> "local", fs |-> StoreOf(<<KeyAX>>),
       procs |-> <<GoUploadData(d, KeyAY), GoDeleteObject(KeyAX)>>] : d \in Data }
    \cup { [adapter |-> "local", fs |-> StoreOf(<<k[1], k[2]>>),
            procs |-> <<GoDeleteObject(k[1]), GoDeleteObject(k[2])>>] :
             k \in {<<KeyAX, KeyAY>>, <<KeyAAX, KeyAFY>>} }
    \cup { [adapter |-> "local", fs |-> StoreOf(<<KeyAX>>),
            procs |-> <<GoDownloadData(KeyAX), GoUploadData(d, KeyAX)>>] :
             d \in Data \ {<<>>, Payload(1)} }
    \cup { [adapter |-> "gcp", fs |-> FSBase,
            procs |-> <<GoNewGCP([CredentialsJSON |-> "", ProxyConfig |-> pc]),
                        GoNewGCP([CredentialsJSON |-> j, ProxyConfig |-> NoProxy])>>] :
             pc \in ProxyConfigs \ {NoProxy}, j \in {"", "json", "bad"} }

InitConcurrent ==
    /\ \E sc \in Scenarios : adapter = sc.adapter /\ fs = sc.fs /\ procs = sc.procs
    /\ bucket = EmptyBucket
    /\ last = NoCall
    /\ conf \in ConfOf(adapter)
    /\ net = InitNet
    /\ client = ClientOf(adapter, conf)

NextConcurrent ==
    \/ UploadDataMkdirAll
    \/ UploadDataCreate
    \/ UploadDataWrite
    \/ DeleteObjectRemove
    \/ DeleteObjectReadDir
    \/ DownloadDataReadFile
    \/ NewGCPDefaultTransport
    \/ NewGCPClone
    \/ NewGCPProxy
    \/ NewGCPNewClient
    \/ NewGCPRestore

SpecConcurrent == InitConcurrent /\ [][NextConcurrent]_vars

----------------------------------------------------------------------------
(* Construction of either adapter that takes a proxy configuration         *)

InitNew == InitNewS3 \/ InitNewGCP

NextNew == NextNewS3 \/ NextNewGCP

SpecNew == InitNew /\ [][NextNew]_vars


----------------------------------------------------------------------------
(* Properties                                                              *)

Range(seq) == {seq[i] : i \in 1..Len(seq)}

\* the node of the storage root, and of the object a key names
Root == Elems(StorageDir)
Target(key) == Elems(Join(StorageDir, key))

\* the stored objects: the files strictly beneath the root; the key of one
IsObject(f, e) == IsFile(f, e) /\ Len(e) > Len(Root) /\ SubSeq(e, 1, Len(Root)) = Root
Objects(f) == {e \in DOMAIN f : IsObject(f, e)}
KeyOf(e) == JoinElems(SubSeq(e, Len(Root) + 1, Len(e)))

\* C1: local adapter: after a successful UploadData(data, storagePath, ct),
\* DownloadData(storagePath) returns exactly data and no error (checked for
\* every storage path uploaded to, all of which stay under the root).
C1_LocalRoundTrip ==
    (adapter = "local" /\ last.op = "UploadData" /\ last.err = Nil)
        => local_DownloadData(fs, last.path) = [data |-> last.data, err |-> Nil]

\* a payload longer than one byte was uploaded over a nested path
C1_Witness ==
    /\ adapter = "local" /\ last.op = "UploadData" /\ last.err = Nil
    /\ Len(last.data) > 1
    /\ last.path = <<"a", "/", "a", "/", "a">>

\* C2: Azure adapter: a DownloadData that follows a successful UploadData of
\* the same storage path, the provider answering, returns no error and a byte
\* slice equal to the uploaded data.
C2_AzureRoundTrip ==
    [][ ( /\ adapter = "azure"
          /\ last.op = "UploadData" /\ last.err = Nil
          /\ last'.op = "DownloadData" /\ last'.path = last.path
          /\ last'.err # ErrProvider )
        => (last'.err = Nil /\ last'.out = last.data) ]_vars

\* C3: GCP adapter: DownloadData of an existing object, the provider
\* answering, returns no error and the complete content of the object,
\* whatever the object's size and however many bytes one Read delivers.
C3_GcpDownloadComplete ==
    ( /\ adapter = "gcp"
      /\ last.op = "DownloadData" /\ last.path \in DOMAIN bucket
      /\ last.err # ErrProvider )
        => (last.err = Nil /\ last.out = bucket[last.path])

\* C4: every adapter: UploadData returning a nil error returns size = len(data)
\* and a non-empty location; returning an error it returns an empty location
\* and size 0.
C4_UploadDataResult ==
    last.op = "UploadData"
        => IF last.err = Nil
           THEN last.size = Len(last.data) /\ last.loc # <<>>
           ELSE last.size = 0 /\ last.loc = <<>>

\* the GCP adapter uploaded a payload longer than one byte
C4_Witness ==
    adapter = "gcp" /\ last.op = "UploadData" /\ last.err = Nil /\ last.size > 1

\* C5: local adapter: DownloadFile(localPath, storagePath) on an existing
\* object returns no error, leaves at localPath a file with the object's
\* content and returns the object's size, whether or not localPath existed.
C5_DownloadFileCopies ==
    [][ ( /\ adapter = "local"
          /\ last'.op = "DownloadFile"
          /\ IsObject(fs, Target(last'.path)) )
        => ( /\ last'.err = Nil
             /\ IsFile(fs', Elems(last'.localPath))
             /\ fs'[Elems(last'.localPath)].data = fs[Target(last'.path)].data
             /\ last'.size = Len(fs[Target(last'.path)].data) ) ]_vars

\* a call that uploads to the path key names
IsUploadOf(call, key) ==
    /\ call.op \in {"UploadData", "UploadFile"}
    /\ Join(StorageDir, call.path) = Join(StorageDir, key)

\* the errors of reading a path at which there is no object
AbsentErrors == {ENOENT, ENOTDIR, EISDIR}

\* C6: local adapter: after a successful DeleteObject(storagePath), and
\* whatever call other than an upload of that path comes next,
\* DownloadData(storagePath) fails with a not-found error and returns no data.
C6_DeletedStaysAbsent ==
    [][ ( /\ adapter = "local"
          /\ last.op = "DeleteObject" /\ last.err = Nil
          /\ ~IsUploadOf(last', last.path) )
        => LET r == local_DownloadData(fs', last.path)
           IN  r.err \in AbsentErrors /\ r.data = <<>> ]_vars

\* what deleting the object t has to remove: t, and every directory between t
\* and the root that holds nothing but the chain leading to t
ExpectedRemoved(f, t) ==
    {t} \cup {d \in Ancestors(t) : Len(d) > Len(Root)
                                   /\ Beneath(f, d) \subseteq SelfAndAncestors(t)}

\* C7: local adapter: DeleteObject on a stored object succeeds and removes the
\* file and every directory between it and the root that has become empty;
\* the first non-empty ancestor, everything above it, the root and every
\* other node are left as they were.
C7_UpwardCleanup ==
    [][ ( /\ adapter = "local"
          /\ last'.op = "DeleteObject"
          /\ IsObject(fs, Target(last'.path)) )
        => ( /\ last'.err = Nil
             /\ fs' = Without(fs, ExpectedRemoved(fs, Target(last'.path))) ) ]_vars

\* a/a/a was deleted, a/a and a went with it, and the root is still there
C7_Witness ==
    /\ adapter = "local" /\ last.op = "DeleteObject" /\ last.err = Nil
    /\ last.path = <<"a", "/", "a", "/", "a">>
    /\ IsDir(fs, Root)
    /\ Children(fs, Root) = {}

\* C8: local adapter: no DeleteObject or DeleteObjects call, whatever its
\* argument, removes the storage root, once it exists, or a directory above it.
C8_RootNeverRemoved ==
    [][ ( /\ adapter = "local"
          /\ last'.op \in {"DeleteObject", "DeleteObjects"}
          /\ IsDir(fs, Root) )
        => \A d \in SelfAndAncestors(Root) : IsDir(fs, d) => IsDir(fs', d) ]_vars

\* the directory ListObjects reads for a prefix, and the name prefix it matches
PrefixDir(prefix) == Elems(Split(Join(StorageDir, prefix)).dir)
PrefixName(prefix) == Split(Join(StorageDir, prefix)).file

\* the file e is an entry of the prefix's directory with a matching name, or
\* lies at any depth beneath an entry of that directory with a matching name
DualMatch(f, prefix, e) ==
    \E d \in SelfAndAncestors(e) :
        /\ Len(d) = Len(PrefixDir(prefix)) + 1
        /\ Up(d) = PrefixDir(prefix)
        /\ HasPrefix(d[Len(d)], PrefixName(prefix))
        /\ (d # e => IsDir(f, d))

\* C9: local adapter: ListObjects(prefix) returns every file of the prefix's
\* parent directory whose name starts with the prefix's last element, and
\* every file at any depth under a directory of it whose name starts so.
C9_DualPrefixListing ==
    (adapter = "local" /\ last.op = "ListObjects")
        => \A e \in DOMAIN fs :
             (IsFile(fs, e) /\ DualMatch(fs, last.path, e))
                 => PathOf(e) \in Range(last.list)

\* ListObjects("a/a") returned the file a/a. and the file under directory a/a/
C9_Witness ==
    /\ adapter = "local" /\ last.op = "ListObjects"
    /\ last.path = <<"a", "/", "a">>
    /\ StorageDir \o <<"/", "a", "/", "a", ".">> \in Range(last.list)
    /\ StorageDir \o <<"/", "a", "/", "a", "/", "a">> \in Range(last.list)

\* a prefix without "." and ".." elements
PlainPrefix(prefix) ==
    \A el \in Range(SplitSlash(prefix, <<>>, <<>>)) : el \notin {Dot, DotDot}

\* C10: local adapter: ListObjects(prefix) returns exactly the stored objects
\* whose key begins with prefix (stated for the prefixes made of names and
\* slashes, the root being a directory with nothing beside it).
C10_ListExactlyPrefix ==
    ( /\ adapter = "local"
      /\ last.op = "ListObjects" /\ last.err = Nil
      /\ PlainPrefix(last.path)
      /\ IsDir(fs, Root)
      /\ ~Exists(fs, Elems(SiblingDir)) )
        => Range(last.list)
             = {PathOf(e) : e \in {o \in Objects(fs) : HasPrefix(KeyOf(o), last.path)}}


\* the filesystem after DeleteObject was called on the first k paths in turn
RECURSIVE Chain(_, _, _)
Chain(f, ps, k) ==
    IF k = 0 THEN f ELSE local_DeleteObject(Chain(f, ps, k - 1), ps[k]).fs

\* each of the first k calls returned nil
AllDeleted(f, ps, k) ==
    \A i \in 1..k : local_DeleteObject(Chain(f, ps, i - 1), ps[i]).err = Nil

\* C11: local adapter: DeleteObjects(paths) is DeleteObject on the paths in
\* list order up to the first call that fails: it returns that call's error
\* and leaves the filesystem as that call left it (the earlier paths deleted,
\* the later ones not acted on); it returns nil only when every call did.
C11_DeleteObjectsInOrder ==
    [][ (adapter = "local" /\ last'.op = "DeleteObjects")
        => LET ps == last'.paths
           IN  \E k \in 0..Len(ps) :
                 /\ AllDeleted(fs, ps, k)
                 /\ IF k = Len(ps)
                    THEN last'.err = Nil /\ fs' = Chain(fs, ps, k)
                    ELSE LET r == local_DeleteObject(Chain(fs, ps, k), ps[k + 1])
                         IN  /\ r.err # Nil
                             /\ last'.err = r.err
                             /\ fs' = r.fs ]_vars

\* the first path was deleted, the second failed, and the first stays deleted
C11_Witness ==
    /\ adapter = "local" /\ last.op = "DeleteObjects"
    /\ last.err # Nil /\ last.size = 1
    /\ ~Exists(fs, Target(last.paths[1]))


\* there is an object at the key: a file beneath the root, or a key of the
\* bucket
ObjectExists(f, b, key) ==
    IF adapter = "local" THEN IsObject(f, Target(key)) ELSE key \in DOMAIN b

\* C12: bucket adapters: DownloadFile of an existing object to a local path
\* whose parent directory does not exist, the provider answering, succeeds
\* and leaves a file at the local path.
C12_DownloadFileCreatesParents ==
    [][ ( /\ adapter # "local"
          /\ last'.op = "DownloadFile"
          /\ ObjectExists(fs, bucket, last'.path)
          /\ last'.err # ErrProvider
          /\ ~IsDir(fs, Up(Elems(last'.localPath))) )
        => (last'.err = Nil /\ IsFile(fs', Elems(last'.localPath))) ]_vars

\* C13: every adapter: the size a successful UploadFile returns is the size
\* the source file had on disk when the call opened it, also when another
\* process changes the file while it is being uploaded.
C13_UploadFileSizeAtOpen ==
    [][ (last'.op = "UploadFile" /\ last'.err = Nil)
        => last'.size = Stat(fs, last'.localPath).size ]_vars


\* the calls that move data or delete
DataOps == {"UploadData", "UploadFile", "DownloadData", "DownloadFile", "Delete"}

BothEmpty(c) == c.Region = "" /\ c.Endpoint = <<>>

\* the region the adapter has to use: the bucket's location when it was
\* looked up (us-east-1 for a bucket without constraint), else the configured
\* region, else us-east-1
ExpectedRegion(c, lookup) ==
    IF BothEmpty(c)
    THEN IF lookup[1].answer # "" THEN lookup[1].answer ELSE defaultBucketLocation
    ELSE IF c.Region # "" THEN c.Region ELSE defaultBucketLocation

\* C16: S3 adapter: with Region and Endpoint both empty NewS3 returns an
\* adapter only after one bucket-location lookup that succeeded, and fails
\* when the lookup fails; otherwise it makes no lookup; the adapter's region,
\* and the region of every later call, is the looked-up one, else the
\* configured one, else us-east-1.
C16_RegionResolved ==
    adapter = "s3" =>
      /\ (last.op = "NewS3" /\ last.lookup # <<>> /\ last.lookup[1].answer = "fail")
            => (last.err # Nil /\ ~client.built)
      /\ (last.op = "NewS3" /\ ~BothEmpty(conf)) => last.lookup = <<>>
      /\ client.built =>
            /\ Len(client.lookup) = (IF BothEmpty(conf) THEN 1 ELSE 0)
            /\ \A i \in 1..Len(client.lookup) : client.lookup[i].answer # "fail"
            /\ client.awsConf.Region = ExpectedRegion(conf, client.lookup)
            /\ last.op \in DataOps => last.region = ExpectedRegion(conf, client.lookup)

\* an upload went to the region the lookup found
C16_Witness ==
    /\ adapter = "s3" /\ BothEmpty(conf)
    /\ last.op = "UploadData" /\ last.err = Nil
    /\ client.lookup # <<>> /\ client.lookup[1].answer = "r2"
    /\ last.region = "r2"

\* the credentials the configuration asks for
ExpectedCredentials(c) ==
    LET base == IF c.AccessKey # "" /\ c.Secret # ""
                THEN [kind |-> "static", key |-> c.AccessKey]
                ELSE [kind |-> "default"]
    IN  IF c.AssumeRoleArn # ""
        THEN [kind |-> "role", base |-> base, arn |-> c.AssumeRoleArn,
              ExternalID |-> IF c.AssumeRoleExternalId # "" THEN c.AssumeRoleExternalId
                             ELSE "nil"]
        ELSE base

\* C17: S3 adapter: the adapter NewS3 returns holds static credentials when
\* access key and secret are both set, else the default chain, and, when an
\* assume-role ARN is set, the role provider built on those (the external id
\* passed only when non-empty); the region lookup and every later call are
\* made with these credentials.
C17_CredentialsResolved ==
    adapter = "s3" =>
      /\ \A i \in 1..Len(last.lookup) :
            last.lookup[i].Credentials = ExpectedCredentials(conf)
      /\ client.built =>
            /\ client.awsConf.Credentials = ExpectedCredentials(conf)
            /\ \A i \in 1..Len(client.lookup) :
                  client.lookup[i].Credentials = ExpectedCredentials(conf)
            /\ last.op \in DataOps => last.creds = ExpectedCredentials(conf)

\* a role with an external id on a static key pair: the lookup and an upload
\* were made with the role's credentials
C17_Witness ==
    /\ adapter = "s3"
    /\ conf.AssumeRoleArn # "" /\ conf.AssumeRoleExternalId # "" /\ conf.Secret # ""
    /\ client.built /\ client.lookup # <<>>
    /\ client.lookup[1].Credentials.kind = "role"
    /\ last.op = "UploadData" /\ last.creds.kind = "role"
    /\ last.creds.base.kind = "static" /\ last.creds.ExternalID = "x"


\* C20: local adapter: a ListObjects whose read of the prefix's directory
\* fails returns a non-nil error.
C20_ListObjectsPropagates ==
    ( /\ adapter = "local"
      /\ last.op = "ListObjects"
      /\ ReadDir(fs, Split(Join(StorageDir, last.path)).dir).err # Nil )
        => last.err # Nil


\* C14: AliOSS adapter: DownloadData, DownloadFile, GeneratePresignedUrl and
\* Delete never panic, and never return nil with nothing: a download that
\* returns nil returns an object that is stored, a presign that returns nil
\* returns a URL.
C14_AliOSSNeverPanics ==
    ( /\ adapter \in {"alioss", "aliyun"}
      /\ last.op \in {"DownloadData", "DownloadFile", "GeneratePresignedUrl", "Delete"} )
        => /\ last.err # Panic
           /\ (last.op = "DownloadData" /\ last.err = Nil)
                 => (last.path \in DOMAIN bucket /\ last.out = bucket[last.path])
           /\ (last.op = "GeneratePresignedUrl" /\ last.err = Nil) => last.loc # <<>>

\* C15: Azure adapter: GeneratePresignedUrl does not panic; without a
\* TokenCredential it returns an error that is not a transport error, and no
\* URL; with one, a call that returns nil returns a URL.
C15_AzurePresign ==
    (adapter = "azure" /\ last.op = "GeneratePresignedUrl")
        => /\ last.err # Panic
           /\ ~conf.TokenCredential => (last.err \notin {Nil, ErrProvider} /\ last.loc = <<>>)
           /\ (conf.TokenCredential /\ last.err = Nil) => last.loc # <<>>


\* C18: GCP adapter: whatever the configuration and the outcome, after NewGCP
\* the default transport has the proxy function and the proxy CONNECT headers
\* it had before the call, and so has the transport object that was the
\* default before the call.
C18_TransportRestored ==
    [][ (adapter = "gcp" /\ last'.op = "NewGCP")
        => /\ net'.transports[net'.default] = net.transports[net.default]
           /\ net'.transports[net.default] = net.transports[net.default] ]_vars


\* C19: on GCP, Azure and S3 every upload and download returns, whatever the
\* provider answers: a call the provider fails at every attempt ends with an
\* error after the number of attempts of the adapter's policy.
C19_RetriesBounded ==
    ( /\ adapter \in {"gcp", "azure", "s3"}
      /\ last.op \in {"UploadData", "UploadFile", "DownloadData", "DownloadFile"} )
        => /\ last.err # Hang
           /\ last.err = ErrProvider => last.attempts \in 1..MaxFaults


\* the location the S3 adapter has to return: the endpoint with its scheme
\* (https when it has none), the bucket and the key under path style; https,
\* the bucket in front of the endpoint's host, and the key otherwise
HttpScheme == <<"h", "t", "t", "p", ":", "/", "/">>
ExpectedLocation(c, key) ==
    LET e == IF c.Endpoint = <<>> THEN defaultEndpoint ELSE c.Endpoint
        host == IF HasPrefix(e, Https) THEN SubSeq(e, Len(Https) + 1, Len(e))
                ELSE IF HasPrefix(e, HttpScheme) THEN SubSeq(e, Len(HttpScheme) + 1, Len(e))
                     ELSE e
        url == IF HasPrefix(e, Https) \/ HasPrefix(e, HttpScheme) THEN e ELSE Https \o e
    IN  IF c.ForcePathStyle THEN url \o <<"/">> \o s3Bucket \o <<"/">> \o key
        ELSE Https \o s3Bucket \o <<".">> \o host \o <<"/">> \o key

\* C21: S3 adapter: whatever the endpoint (none, a host, a URL with a scheme)
\* and the path style, a successful upload returns a URL with one scheme:
\* <endpoint>/<bucket>/<key> under path style, https://<bucket>.<host>/<key>
\* otherwise.
C21_UploadLocation ==
    (adapter = "s3" /\ last.op \in {"UploadData", "UploadFile"} /\ last.err = Nil)
        => last.loc = ExpectedLocation(conf, last.path)

\* C22: S3 adapter, all three retry bounds configured: no call makes more
\* than MaxRetries attempts, and a delay between two attempts is at least
\* MinRetryDelay and at most MaxRetryDelay.
C22_RetryBounds ==
    ( /\ adapter = "s3" /\ client.built
      /\ conf.MaxRetries > 0 /\ conf.MaxRetryDelay > 0 )
        => /\ client.awsConf.Retryer.max <= conf.MaxRetries
           /\ last.op \in {"UploadData", "UploadFile", "DownloadData", "DownloadFile"}
                => /\ last.attempts <= conf.MaxRetries
                   /\ last.attempts > 1
                        => /\ conf.MinRetryDelay <= last.delay
                           /\ last.delay <= conf.MaxRetryDelay

\* the CONNECT header a proxy configuration asks for
ExpectedConnectHeader(pc) ==
    IF pc.set /\ pc.Username # "" /\ pc.Password # ""
    THEN <<"Proxy-Authorization", "Basic ", "base64", pc.Username, ":", pc.Password>>
    ELSE <<>>

C24_DownloadFileReadOnly ==
    [][ (adapter = "local" /\ last'.op = "DownloadFile")
        => /\ Objects(fs') = Objects(fs)
           /\ \A e \in Objects(fs) : fs'[e].data = fs[e].data ]_vars

\* a prefix that does not step out through ".."
StaysBelow(prefix) ==
    \A el \in Range(SplitSlash(prefix, <<>>, <<>>)) : el # DotDot

\* C25: local adapter: every path ListObjects returns, the empty prefix and
\* "." included, lies strictly beneath the storage root; nothing from a
\* sibling directory whose name starts with the root's name is returned.
C25_ListingContained ==
    (adapter = "local" /\ last.op = "ListObjects" /\ StaysBelow(last.path))
        => \A i \in 1..Len(last.list) :
              /\ HasPrefix(last.list[i], StorageDir \o <<"/">>)
              /\ IsObject(fs, Elems(last.list[i]))


\* the directories beneath the root that hold nothing
EmptyDirs(f) == {d \in Beneath(f, Root) : IsDir(f, d) /\ Children(f, d) = {}}

\* C26: local adapter, from an empty root, under uploads and deletes on keys
\* under the root, failed ones included: no directory beneath the root is
\* empty, a file beneath the root appears or changes only as the target of an
\* upload that succeeded, and the target of a delete that succeeded is gone.
C26_FlatNamespace ==
    [][ /\ EmptyDirs(fs') = {}
        /\ \A e \in Objects(fs') :
              (e \notin Objects(fs) \/ fs'[e].data # fs[e].data)
                 => /\ last'.op \in {"UploadData", "UploadFile"}
                    /\ last'.err = Nil
                    /\ e = Target(last'.path)
        /\ (last'.op = "DeleteObject" /\ last'.err = Nil)
              => Target(last'.path) \notin Objects(fs') ]_vars


\* both goroutines have returned
AllDone == \A p \in DOMAIN procs : procs[p].pc = "done"

\* C27: local adapter: UploadData(data, "a/y") running beside
\* DeleteObject("a/x"), a/x being the only file of a: the upload returns nil
\* and a/y then holds data, in every interleaving.
C27_UploadBesideDelete ==
    ( /\ Len(procs) = 2 /\ AllDone
      /\ procs[1].op = "UploadData" /\ procs[2].op = "DeleteObject" )
        => /\ procs[1].err = Nil
           /\ IsFile(fs, Target(procs[1].key))
           /\ fs[Target(procs[1].key)].data = procs[1].data

\* C28: local adapter: two DeleteObject calls running side by side on two
\* objects of one directory, or of two directories under a shared one: both
\* return nil, both objects are gone and the root is still there.
C28_ConcurrentDeletes ==
    ( /\ Len(procs) = 2 /\ AllDone
      /\ procs[1].op = "DeleteObject" /\ procs[2].op = "DeleteObject" )
        => /\ procs[1].err = Nil /\ procs[2].err = Nil
           /\ ~Exists(fs, Target(procs[1].key)) /\ ~Exists(fs, Target(procs[2].key))
           /\ IsDir(fs, Root)

\* C29: local adapter: DownloadData(p) running beside UploadData(new, p) on
\* a path that holds old: the download returns old or new, whole.
C29_ReadBesideOverwrite ==
    ( /\ Len(procs) = 2
      /\ procs[1].op = "DownloadData" /\ procs[1].pc = "done"
      /\ procs[2].op = "UploadData" )
        => /\ procs[1].err = Nil
           /\ procs[1].out \in {Payload(1), procs[2].data}

\* C30: GCP adapter: two NewGCP calls side by side, the first with a proxy,
\* the second without: the second's client is built on a transport without
\* the proxy, and once both have returned the default transport has the
\* proxy setting it had before.
C30_ConcurrentNewGCP ==
    ( /\ Len(procs) = 2 /\ AllDone
      /\ procs[1].op = "NewGCP" /\ procs[2].op = "NewGCP" )
        => /\ procs[2].built => procs[2].transport.Proxy = InitNet.transports[1].Proxy
           /\ net.transports[net.default].Proxy = InitNet.transports[1].Proxy

====
